---- MODULE Spec2Model ----
(***************************************************************************)
(* Model of the section-extraction and pattern-position-counting pipeline  *)
(* of ethnomusicology_project:                                             *)
(*   src/extract_score_data.py          slicing, section tree extraction   *)
(*   src/score_data_processing.py       quartile counter, corpus wrapper   *)
(*   src/seg2_score_data_processing.py  decile counter                     *)
(*                                                                         *)
(* A music21 stream is a sequence of events in offset order.  An event is  *)
(* a record [id, offset, cls, name]: cls is "Note" or "Rest", name is the  *)
(* pitch name of a note ("rest" for a rest), id is the identity of the     *)
(* event object (the same object is shared by every stream it is appended  *)
(* to).  Every event has a positive duration; offsets are integers.        *)
(*                                                                         *)
(* Python indices are 0-based; TLA+ sequences are 1-based, so the element  *)
(* at Python index i is s[i + 1].                                          *)
(***************************************************************************)
EXTENDS Integers, Sequences, FiniteSets, TLC

VARIABLES
    score,          \* the stream handed to a counter / to extract_measures
    pattern,        \* the pattern handed to a counter
    quartile,       \* result of score_data_processing.count_pattern_in_score
    decile,         \* result of seg2_score_data_processing.count_pattern_in_score
    ran,            \* the operations that have returned: "quartile", "decile",
                    \* "extract_measures"
    start_offset,   \* arguments of extract_measures
    end_offset,
    extracted_part, \* result of extract_measures
    scores_data,    \* the corpus: the dict mbid -> {'score', 'annotations'},
                    \* as the sequence of its entries in insertion order
    pc,             \* the stage of the corpus pipeline
    patterns,       \* arguments of count_all_patterns_wrapper
    scheme,
    all_centos_counts,  \* result of count_all_patterns_wrapper
    score_section_counts,   \* result of calculate_score_section_counts
    centos_counts,      \* the list of the wrapper's results, one per
                        \* pattern source
    scores_mizan_dict,  \* result of get_mizans_of_scores
    centos_counts_dict, \* argument of count_centos_positions
    df,                 \* result of count_centos_positions
    cumulative,         \* result of get_centos_counts_per_tab_mizan_score
    merged,             \* result of count_distribution_over_dataset
    total_counts,       \* result of combine_normalized_position_counts
    scores_folder,      \* arguments of get_score_data: the file names and
    annotation_records, \* the annotation set
    unparsable_files,   \* the file names on which converter.parse raises
    loaded_scores,      \* result of get_score_data
    log                 \* the file paths get_score_data printed

countVars == <<pattern, quartile, decile>>
sliceVars == <<start_offset, end_offset, extracted_part>>
corpusVars == <<scores_data, pc, patterns, scheme, all_centos_counts,
                score_section_counts>>
aggVars == <<centos_counts, scores_mizan_dict, centos_counts_dict, df,
             cumulative, merged, total_counts>>
loadVars == <<scores_folder, annotation_records, unparsable_files,
              loaded_scores, log>>

vars == <<score, ran, countVars, sliceVars, corpusVars, aggVars, loadVars>>

\* Python's None; also the value of a result that is not computed yet.
None == "None"

\* The variables of the table aggregation and of the corpus loader, idle.
IdleAgg ==
    /\ centos_counts = <<>>
    /\ scores_mizan_dict = None
    /\ centos_counts_dict = None
    /\ df = None
    /\ cumulative = None
    /\ merged = None
    /\ total_counts = None

IdleLoad ==
    /\ scores_folder = <<>>
    /\ annotation_records = <<>>
    /\ unparsable_files = {}
    /\ loaded_scores = None
    /\ log = <<>>

-----------------------------------------------------------------------------
(* Bounds of the explored inputs.                                          *)

MaxLen == 4         \* longest enumerated stream handed to a counter
MaxPat == 2         \* longest enumerated pattern
MaxEvents == 3      \* most events of an enumerated timeline to slice
MaxOffset == 4      \* largest start / end offset handed to extract_measures
MaxSections == 2    \* most top-level sections of an enumerated piece
MaxSanai == 2       \* most sanai of a section
MaxLines == 2       \* most lines of a sana

Pitches == {"C", "D"}
Symbols == Pitches \cup {"rest"}

-----------------------------------------------------------------------------
(* Streams.                                                                *)

\* The stream whose k-th event is a note named syms[k], or a rest when
\* syms[k] = "rest"; events follow each other at offsets 0, 1, 2, ...
MkStream(syms) ==
    [k \in 1..Len(syms) |->
        [id     |-> k,
         offset |-> k - 1,
         cls    |-> IF syms[k] = "rest" THEN "Rest" ELSE "Note",
         name   |-> syms[k]]]

\* Sum of the first n entries of a sequence of numbers.
RECURSIVE SumFirst(_, _)
SumFirst(durs, n) == IF n = 0 THEN 0 ELSE durs[n] + SumFirst(durs, n - 1)

\* The flattened stream of notes and rests: event k is named syms[k] and
\* lasts durs[k] > 0, so it starts where event k-1 ends.
MkTimeline(syms, durs) ==
    [k \in 1..Len(syms) |->
        [id     |-> k,
         offset |-> SumFirst(durs, k - 1),
         cls    |-> IF syms[k] = "rest" THEN "Rest" ELSE "Note",
         name   |-> syms[k]]]

SeqsUpTo(S, n) == UNION {[1..k -> S] : k \in 0..n}

\* score.getElementsByClass(note.Note)
getElementsByClass(stream, cls) == SelectSeq(stream, LAMBDA el : el.cls = cls)

\* [n.name for n in score.getElementsByClass(note.Note)]
PitchNames(stream) ==
    LET notes == getElementsByClass(stream, "Note")
    IN  [k \in 1..Len(notes) |-> notes[k].name]

Min(a, b) == IF a < b THEN a ELSE b
Max(a, b) == IF a > b THEN a ELSE b

\* Python slice lst[i:j] for 0 <= i, with j clipped to len(lst).
Slice(lst, i, j) == SubSeq(lst, i + 1, Min(j, Len(lst)))

\* Python range(n) as the ascending sequence 0, 1, ..., n-1 (empty for n <= 0).
Range(n) == [k \in 1..Max(n, 0) |-> k - 1]

-----------------------------------------------------------------------------
(* Pattern Occurrence Counter: the scan shared by both counters.           *)

\* Mutant: the scan visits every start index and compares only the notes
\* that exist, so a pattern running past the end of the list still matches.
MatchedIndices_tail(names, pat) ==
    SelectSeq(Range(Len(names)),
              LAMBDA i : \A j \in 1..Len(pat) :
                            i + j <= Len(names) => names[i + j] = pat[j])

\* for i in range(len(score_pitch_names) - len(pattern) + 1):
\*     if score_pitch_names[i:i+len(pattern)] == pattern:
\* The start indices at which the body of the `if` runs, in loop order.
MatchedIndices(names, pat) ==
    SelectSeq(Range(Len(names) - Len(pat) + 1),
              LAMBDA i : Slice(names, i, i + Len(pat)) = pat)

\* Mutant: the length is taken over every event of the stream, rests too.
ScoreLength_withRests(sc) == Len(sc)

\* score_length = len(score_pitch_names)
ScoreLength(sc) == Len(PitchNames(sc))

-----------------------------------------------------------------------------
(* Quartile counter, score_data_processing.count_pattern_in_score.         *)

\* Mutant: the quarter is rounded up instead of truncated.
Quarter_roundedUp(score_length) == (score_length + 3) \div 4

\* int(score_length * 0.25): 0.25 is a binary fraction, so the product is
\* exact and int() truncates it to floor(score_length / 4).
Quarter(score_length) == score_length \div 4

RECURSIVE QuartileLoop(_, _, _)
QuartileLoop(idxs, score_length, acc) ==
    IF idxs = <<>> THEN acc
    ELSE LET i    == Head(idxs)
             acc1 == [acc EXCEPT !.pattern_count = @ + 1]
             acc2 == IF i < Quarter(score_length)
                        THEN [acc1 EXCEPT !.first_quarter_count = @ + 1]
                     ELSE IF i >= score_length - Quarter(score_length)
                        THEN [acc1 EXCEPT !.last_quarter_count = @ + 1]
                     ELSE acc1
         IN  QuartileLoop(Tail(idxs), score_length, acc2)

\* Mutant: the middle count forgets to subtract the last quarter.
count_pattern_in_score_noLast(sc, pat) ==
    LET names == PitchNames(sc)
        acc   == QuartileLoop(MatchedIndices(names, pat), ScoreLength(sc),
                     [pattern_count |-> 0, first_quarter_count |-> 0,
                      last_quarter_count |-> 0])
    IN  <<acc.first_quarter_count,
          acc.pattern_count - acc.first_quarter_count,
          acc.last_quarter_count>>

\* Returns <<first_quarter_count, middle_count, last_quarter_count>>.
count_pattern_in_score(sc, pat) ==
    LET names == PitchNames(sc)
        acc   == QuartileLoop(MatchedIndices(names, pat), ScoreLength(sc),
                     [pattern_count |-> 0, first_quarter_count |-> 0,
                      last_quarter_count |-> 0])
        middle_count == acc.pattern_count
                          - (acc.first_quarter_count + acc.last_quarter_count)
    IN  <<acc.first_quarter_count, middle_count, acc.last_quarter_count>>

-----------------------------------------------------------------------------
(* Decile counter, seg2_score_data_processing.count_pattern_in_score.      *)

DecileKeys == <<"10_pct", "20_pct", "30_pct", "40_pct", "50_pct",
                "60_pct", "70_pct", "80_pct", "90_pct", "100_pct">>

DecileKeySet == {DecileKeys[k] : k \in 1..Len(DecileKeys)}

\* int(score_length * 0.k) for k = 1..9.  The double product truncates to
\* floor(k * score_length / 10) for every score_length below 90 (the first
\* length where they differ is 90, where int(90 * 0.7) = 62).
Tenths(score_length, k) == (score_length * k) \div 10

\* The if/elif chain of the loop body: the key incremented for start index
\* i, or None when no branch is taken.
DecileBranch(i, score_length) ==
    LET P(k) == Tenths(score_length, k) IN
    IF i < P(1) THEN "10_pct"
    ELSE IF i >= P(1) /\ i < P(2) THEN "20_pct"
    ELSE IF i >= P(2) /\ i < P(3) THEN "30_pct"
    ELSE IF i >= P(3) /\ i < P(4) THEN "40_pct"
    ELSE IF i >= P(4) /\ i < P(5) THEN "50_pct"
    ELSE IF i >= P(5) /\ i < P(6) THEN "60_pct"
    ELSE IF i >= P(6) /\ i < P(7) THEN "70_pct"
    ELSE IF i >= P(7) /\ i < P(8) THEN "80_pct"
    ELSE IF i >= P(8) /\ i < P(9) THEN "90_pct"
    ELSE IF i >= score_length - P(1) THEN "100_pct"
    ELSE None

RECURSIVE DecileLoop(_, _, _)
DecileLoop(idxs, score_length, counts) ==
    IF idxs = <<>> THEN counts
    ELSE LET key == DecileBranch(Head(idxs), score_length)
         IN  DecileLoop(Tail(idxs), score_length,
                 IF key = None THEN counts
                 ELSE [counts EXCEPT ![key] = @ + 1])

\* Returns distributed_pattern_counts, a dict over DecileKeySet.
seg2_count_pattern_in_score(sc, pat) ==
    DecileLoop(MatchedIndices(PitchNames(sc), pat), ScoreLength(sc),
               [key \in DecileKeySet |-> 0])

-----------------------------------------------------------------------------
(* Specification of the counters: a stream and a pattern are drawn, each   *)
(* counter is applied to them once.                                        *)

\* spec §8 scenario 1: 20 pitched notes [C,D,E,F,G]*4.
Scenario1Score ==
    MkStream([k \in 1..20 |-> <<"C", "D", "E", "F", "G">>[((k - 1) % 5) + 1]])

Scenario1Pattern == <<"C", "D">>

CountScores == {MkStream(syms) : syms \in SeqsUpTo(Symbols, MaxLen)}
                   \cup {Scenario1Score}

Patterns == SeqsUpTo(Pitches, MaxPat)

Init ==
    /\ score \in CountScores
    /\ pattern \in Patterns
    /\ quartile = None
    /\ decile = None
    /\ ran = {}
    /\ start_offset = 0
    /\ end_offset = 0
    /\ extracted_part = None
    /\ scores_data = <<>>
    /\ pc = "idle"
    /\ patterns = <<>>
    /\ scheme = None
    /\ all_centos_counts = None
    /\ score_section_counts = None
    /\ IdleAgg
    /\ IdleLoad

CountQuartile ==
    /\ "quartile" \notin ran
    /\ quartile' = count_pattern_in_score(score, pattern)
    /\ ran' = ran \cup {"quartile"}
    /\ UNCHANGED <<score, pattern, decile, sliceVars, corpusVars, aggVars,
                   loadVars>>

CountDecile ==
    /\ "decile" \notin ran
    /\ decile' = seg2_count_pattern_in_score(score, pattern)
    /\ ran' = ran \cup {"decile"}
    /\ UNCHANGED <<score, pattern, quartile, sliceVars, corpusVars, aggVars,
                   loadVars>>

Next == CountQuartile \/ CountDecile

Spec == Init /\ [][Next]_vars

-----------------------------------------------------------------------------
(* Properties of the counters.                                             *)

\* The start indices of the occurrences of pat in names: the i in
\* [0, len(names) - len(pat)] with names[i:i+len(pat)] == pat.
Occurrences(names, pat) ==
    {i \in 0..(Len(names) - Len(pat)) :
        \A j \in 1..Len(pat) : names[i + j] = pat[j]}

\* Number of pitched events of a stream (rests not counted).
PitchedCount(sc) == Cardinality({k \in 1..Len(sc) : sc[k].cls = "Note"})

DecileTotal(d) ==
    d["10_pct"] + d["20_pct"] + d["30_pct"] + d["40_pct"] + d["50_pct"]
      + d["60_pct"] + d["70_pct"] + d["80_pct"] + d["90_pct"] + d["100_pct"]

AllZeroDecile(d) == \A key \in DecileKeySet : d[key] = 0

\* C1: for a non-empty pattern the ten decile bucket counts sum to the
\* number of occurrences of the pattern (every occurrence start index is
\* counted in exactly one bucket).
C1_DecileSumsToTotal ==
    ("decile" \in ran /\ Len(pattern) > 0)
        => DecileTotal(decile)
             = Cardinality(Occurrences(PitchNames(score), pattern))

\* C2: the quartile counter's Start + Middle + End equals the number of
\* occurrences of the pattern in the pitch-name list.
C2_QuartileSumsToTotal ==
    "quartile" \in ran
        => quartile[1] + quartile[2] + quartile[3]
             = Cardinality(Occurrences(PitchNames(score), pattern))

C2_Witness ==
    /\ "quartile" \in ran
    /\ quartile[1] > 0 /\ quartile[2] > 0 /\ quartile[3] > 0

\* C3: with N the number of pitched events, an occurrence at start index i
\* is counted as Start if i < floor(N/4), as End if i >= N - floor(N/4),
\* and as Middle otherwise; 20 notes [C,D,E,F,G]*4 with pattern [C,D] give
\* occurrences 0, 5, 10, 15 counted Start = 1, Middle = 2, End = 1.
C3_QuartileClassification ==
    "quartile" \in ran =>
        LET N   == PitchedCount(score)
            occ == Occurrences(PitchNames(score), pattern)
            q   == N \div 4
        IN  /\ quartile[1] = Cardinality({i \in occ : i < q})
            /\ quartile[3] = Cardinality({i \in occ : i >= N - q})
            /\ quartile[2] = Cardinality({i \in occ : i >= q /\ i < N - q})
            /\ (score = Scenario1Score /\ pattern = Scenario1Pattern)
                 => /\ occ = {0, 5, 10, 15}
                    /\ quartile = <<1, 2, 1>>

C3_Witness ==
    /\ "quartile" \in ran
    /\ score = Scenario1Score
    /\ pattern = Scenario1Pattern

\* C4: for the empty pattern both counters return all bucket counts 0, for
\* every stream (the empty stream included).
C4_EmptyPatternAllZero ==
    Len(pattern) = 0 =>
        /\ "quartile" \in ran => quartile = <<0, 0, 0>>
        /\ "decile" \in ran => AllZeroDecile(decile)

\* C5: for a non-empty pattern longer than the pitch-name list (the list
\* may be empty, the stream may hold only rests) both counters return all
\* bucket counts 0.
C5_LongPatternAllZero ==
    (Len(pattern) > 0 /\ Len(pattern) > PitchedCount(score)) =>
        /\ "quartile" \in ran => quartile = <<0, 0, 0>>
        /\ "decile" \in ran => AllZeroDecile(decile)

C5_Witness ==
    /\ ran = {"quartile", "decile"}
    /\ Len(pattern) > PitchedCount(score)
    /\ PitchedCount(score) > 0
    /\ Len(score) > PitchedCount(score)

\* C6: the total counted by each counter equals the number of start indices
\* i in [0, len(names) - len(pattern)] with names[i:i+len(pattern)] ==
\* pattern, names being the pitch names of the pitched events only.
C6_TotalIsNumberOfMatches ==
    LET total == Cardinality(Occurrences(PitchNames(score), pattern))
    IN  /\ "quartile" \in ran
            => quartile[1] + quartile[2] + quartile[3] = total
        /\ "decile" \in ran => DecileTotal(decile) = total

-----------------------------------------------------------------------------
(* Slicing, extract_score_data.extract_measures.                           *)

\* score.getElementsByOffset(offsetStart, offsetEnd, includeEndBoundary=..)
\* with music21's defaults mustBeginInSpan=True, mustFinishInSpan=False, on
\* events of positive duration: the events that begin in the span, in
\* stream order; an event beginning exactly at offsetEnd is in the span only
\* with includeEndBoundary.
getElementsByOffset(stream, offsetStart, offsetEnd, includeEndBoundary) ==
    SelectSeq(stream,
              LAMBDA el : /\ offsetStart <= el.offset
                          /\ \/ el.offset < offsetEnd
                             \/ includeEndBoundary /\ el.offset = offsetEnd)

\* Mutant: the call keeps music21's default includeEndBoundary=True.
extract_measures_defaultBoundary(sc, start, end) ==
    getElementsByOffset(sc, start, end, TRUE)

\* extracted_part = stream.Stream(); every element the iterator yields is
\* appended to it in turn.  The event objects are shared with the score
\* (their `offset` field stays the offset in the piece's timeline).
extract_measures(sc, start, end) ==
    getElementsByOffset(sc, start, end, FALSE)

-----------------------------------------------------------------------------
(* Specification of slicing: a timeline and a span are drawn and           *)
(* extract_measures is applied to them.                                    *)

Durations == {1, 2}

Timelines ==
    UNION {{MkTimeline(syms, durs) :
                syms \in [1..n -> Symbols], durs \in [1..n -> Durations]}
           : n \in 0..MaxEvents}

InitSlice ==
    /\ score \in Timelines
    /\ start_offset \in 0..MaxOffset
    /\ end_offset \in 0..MaxOffset
    /\ extracted_part = None
    /\ ran = {}
    /\ pattern = <<>>
    /\ quartile = None
    /\ decile = None
    /\ scores_data = <<>>
    /\ pc = "idle"
    /\ patterns = <<>>
    /\ scheme = None
    /\ all_centos_counts = None
    /\ score_section_counts = None
    /\ IdleAgg
    /\ IdleLoad

ExtractMeasures ==
    /\ "extract_measures" \notin ran
    /\ extracted_part' = extract_measures(score, start_offset, end_offset)
    /\ ran' = ran \cup {"extract_measures"}
    /\ UNCHANGED <<score, start_offset, end_offset, countVars, corpusVars,
                   aggVars, loadVars>>

NextSlice == ExtractMeasures

SpecSlice == InitSlice /\ [][NextSlice]_vars

\* Position of the event with the given id in a stream (0 when absent).
PositionOf(stream, id) ==
    IF \E k \in 1..Len(stream) : stream[k].id = id
        THEN CHOOSE k \in 1..Len(stream) : stream[k].id = id
        ELSE 0

-----------------------------------------------------------------------------
(* Section Tree Extractor, extract_score_data.extract_sections.            *)
(*                                                                         *)
(* A structural node is a Python dict, modelled as a function from its     *)
(* keys: "start", "end", "sanai" (the key written with diacritics in the   *)
(* source), "lines", "sections" and, once extracted, "score".  A list of   *)
(* nodes is a sequence.                                                    *)

\* key in d
Has(d, key) == key \in DOMAIN d

\* d[key] = v
SetItem(d, key, v) == (key :> v) @@ d

\* Lines 129-133: the slice of a line-section.
ExtractLineSection(sc, line_section) ==
    SetItem(line_section, "score",
            extract_measures(sc, line_section["start"], line_section["end"]))

\* Mutant: the line-sections of a line are not visited.
ExtractLine_noSections(sc, line) ==
    SetItem(line, "score", extract_measures(sc, line["start"], line["end"]))

\* Lines 118-133: the slice of a line, then its 'sections' when present.
ExtractLine(sc, line) ==
    LET line1 == SetItem(line, "score",
                         extract_measures(sc, line["start"], line["end"]))
    IN  IF Has(line, "sections")
            THEN [line1 EXCEPT !["sections"] =
                    [k \in 1..Len(@) |-> ExtractLineSection(sc, @[k])]]
            ELSE line1

\* Mutant: every line of a sana is sliced over the sana's span.
ExtractSana_sanaSpanForLines(sc, sana) ==
    LET sana1 == SetItem(sana, "score",
                         extract_measures(sc, sana["start"], sana["end"]))
    IN  IF Has(sana, "lines")
            THEN [sana1 EXCEPT !["lines"] =
                    [j \in 1..Len(@) |->
                        SetItem(@[j], "score", sana1["score"])]]
            ELSE sana1

\* Lines 107-133: the slice of a sana, then its 'lines' when present.
ExtractSana(sc, sana) ==
    LET sana1 == SetItem(sana, "score",
                         extract_measures(sc, sana["start"], sana["end"]))
    IN  IF Has(sana, "lines")
            THEN [sana1 EXCEPT !["lines"] =
                    [j \in 1..Len(@) |-> ExtractLine(sc, @[j])]]
            ELSE sana1

\* Lines 95-133: the slice of a section, then its sanai when present.
ExtractSection(sc, section) ==
    LET section1 == SetItem(section, "score",
                        extract_measures(sc, section["start"], section["end"]))
    IN  IF Has(section, "sanai")
            THEN [section1 EXCEPT !["sanai"] =
                    [i \in 1..Len(@) |-> ExtractSana(sc, @[i])]]
            ELSE section1

extract_sections(sc, score_sections) ==
    [n \in 1..Len(score_sections) |-> ExtractSection(sc, score_sections[n])]

\* parse_score_info and score.parts[0].flatten().notesAndRests.stream():
\* the 'score' of a corpus entry is modelled by its flattened stream.
\* The returned corpus, when no KeyError is raised.
add_streams_to_score_data(data) ==
    [p \in 1..Len(data) |->
        [data[p] EXCEPT !.annotations = extract_sections(data[p].score, @)]]

\* The key holding the children of a node of the given level
\* (1 Section, 2 Sana, 3 Line, 4 Line-Section).
ChildKey(level) ==
    CASE level = 1 -> "sanai"
      [] level = 2 -> "lines"
      [] level = 3 -> "sections"
      [] OTHER     -> None

\* section['start'] or section['end'] (lines 96-97, 108-109, 119-120,
\* 130-131) raises KeyError for the node or for a node below it.
RECURSIVE NodeRaises(_, _)
NodeRaises(level, node) ==
    \/ ~Has(node, "start")
    \/ ~Has(node, "end")
    \/ /\ Has(node, ChildKey(level))
       /\ \E k \in 1..Len(node[ChildKey(level)]) :
              NodeRaises(level + 1, node[ChildKey(level)][k])

TreeRaises(score_sections) ==
    \E n \in 1..Len(score_sections) : NodeRaises(1, score_sections[n])

\* The node with its slice and those of the nodes below it attached.
ExtractNode(level, sc, node) ==
    CASE level = 1 -> ExtractSection(sc, node)
      [] level = 2 -> ExtractSana(sc, node)
      [] level = 3 -> ExtractLine(sc, node)
      [] OTHER     -> ExtractLineSection(sc, node)

\* The list of nodes as extract_sections leaves it when a KeyError is
\* raised while it is visited: the dicts are changed in place, so the
\* nodes visited before the raise keep their 'score', the others have
\* none.
RECURSIVE PartialNodes(_, _, _)
PartialNodes(level, sc, nodes) ==
    LET raising == {k \in 1..Len(nodes) : NodeRaises(level, nodes[k])}
        r == CHOOSE k \in raising : \A j \in raising : k <= j
        PartialNode(node) ==
            IF ~Has(node, "start") \/ ~Has(node, "end") THEN node
            ELSE [SetItem(node, "score",
                          extract_measures(sc, node["start"], node["end"]))
                     EXCEPT ![ChildKey(level)] =
                                PartialNodes(level + 1, sc, @)]
    IN  [k \in 1..Len(nodes) |->
            IF k < r THEN ExtractNode(level, sc, nodes[k])
            ELSE IF k = r THEN PartialNode(nodes[k])
            ELSE nodes[k]]

\* The corpus as add_streams_to_score_data leaves it when extract_sections
\* raises KeyError for some piece: the loop over mbid (lines 153-159) has
\* no handler, the exception ends it at the first such piece.
AddStreamsAborted(data) ==
    LET raising == {p \in 1..Len(data) : TreeRaises(data[p].annotations)}
        r == CHOOSE p \in raising : \A q \in raising : p <= q
    IN  [p \in 1..Len(data) |->
            IF p < r
                THEN [data[p] EXCEPT !.annotations =
                         extract_sections(data[p].score, @)]
            ELSE IF p = r
                THEN [data[p] EXCEPT !.annotations =
                         PartialNodes(1, data[p].score, @)]
            ELSE data[p]]

-----------------------------------------------------------------------------
(* Corpus Aggregator, score_data_processing.count_all_patterns_wrapper.    *)

\* ''.join(pattern)
RECURSIVE Join(_)
Join(strs) == IF strs = <<>> THEN "" ELSE Head(strs) \o Join(Tail(strs))

\* pattern_counter(score, pattern) for the counter of the given scheme.
PatternCounter(sch, sc, pat) ==
    IF sch = "quartile" THEN count_pattern_in_score(sc, pat)
                        ELSE seg2_count_pattern_in_score(sc, pat)

\* The dict pattern_str -> pattern_count built by the loop over patterns; a
\* later pattern with the same pattern_str overwrites the earlier entry.
RECURSIVE count_all_patterns(_, _, _)
count_all_patterns(sc, pats, sch) ==
    IF pats = <<>> THEN <<>>
    ELSE LET last == pats[Len(pats)]
         IN  SetItem(count_all_patterns(sc, SubSeq(pats, 1, Len(pats) - 1), sch),
                     Join(last), PatternCounter(sch, sc, last))

\* 'section_' + str(section_count) + '_sana_' + str(sana_count)
WhichSana(section_count, sana_count) ==
    "section_" \o ToString(section_count) \o "_sana_" \o ToString(sana_count)

\* which_sana + '_line_' + str(line_count)
WhichLine(which_sana, line_count) ==
    which_sana \o "_line_" \o ToString(line_count)

\* Lines 97-104, from the line at position k on.  acc is the piece's entry
\* [sanai, lines] with err = TRUE once a KeyError is raised.
RECURSIVE LinesLoop(_, _, _, _, _, _)
LinesLoop(lines, k, which_sana, acc, pats, sch) ==
    IF k > Len(lines) \/ acc.err THEN acc
    ELSE LET line == lines[k] IN
         IF ~Has(line, "score") THEN [acc EXCEPT !.err = TRUE]
         ELSE LinesLoop(lines, k + 1, which_sana,
                  [acc EXCEPT !.lines =
                      SetItem(@, WhichLine(which_sana, k),
                              count_all_patterns(line["score"], pats, sch))],
                  pats, sch)

\* Lines 88-104, from the sana at position m on.
RECURSIVE SanaiLoop(_, _, _, _, _, _)
SanaiLoop(sanai, m, section_count, acc, pats, sch) ==
    IF m > Len(sanai) \/ acc.err THEN acc
    ELSE LET sana == sanai[m]
             which_sana == WhichSana(section_count, m)
         IN
         IF ~Has(sana, "score") THEN [acc EXCEPT !.err = TRUE]
         ELSE LET acc1 == [acc EXCEPT !.sanai =
                              SetItem(@, which_sana,
                                  count_all_patterns(sana["score"], pats, sch))]
              IN  \* for line in sana['lines']: KeyError without the key
                  IF ~Has(sana, "lines") THEN [acc1 EXCEPT !.err = TRUE]
                  ELSE SanaiLoop(sanai, m + 1, section_count,
                           LinesLoop(sana["lines"], 1, which_sana, acc1,
                                     pats, sch),
                           pats, sch)

\* Lines 82-104, from the section at position n on; section_count = n.
RECURSIVE SectionsLoop(_, _, _, _, _)
SectionsLoop(annotations, n, acc, pats, sch) ==
    IF n > Len(annotations) \/ acc.err THEN acc
    ELSE SectionsLoop(annotations, n + 1,
             IF Has(annotations[n], "sanai")
                 THEN SanaiLoop(annotations[n]["sanai"], 1, n, acc, pats, sch)
                 ELSE acc,
             pats, sch)

\* Lines 79-104: the entry of one piece.
PieceCounts(annotations, pats, sch) ==
    SectionsLoop(annotations, 1,
                 [sanai |-> <<>>, lines |-> <<>>, err |-> FALSE], pats, sch)

\* A KeyError of some piece propagates out of count_all_patterns_wrapper.
WrapperRaises(scores, pats, sch) ==
    \E p \in 1..Len(scores) : PieceCounts(scores[p].annotations, pats, sch).err

\* A wrapper whose section_count is set to 0 once, before the loop over
\* the pieces, and so runs on from piece to piece.
count_all_patterns_wrapper_sharedSectionCount(scores, pats, sch) ==
    [mbid \in {scores[p].mbid : p \in 1..Len(scores)} |->
        LET p == CHOOSE q \in 1..Len(scores) : scores[q].mbid = mbid
            before == IF p = 1 THEN <<>>
                      ELSE [n \in 1..Len(scores[1].annotations) |->
                               [start |-> 0, end |-> 0]]
            entry == PieceCounts(before \o scores[p].annotations, pats, sch)
        IN  [sanai |-> entry.sanai, lines |-> entry.lines]]

\* The returned dict mbid -> {'sanai': .., 'lines': ..} (when no KeyError
\* is raised).
count_all_patterns_wrapper(scores, pats, sch) ==
    [mbid \in {scores[p].mbid : p \in 1..Len(scores)} |->
        LET p == CHOOSE q \in 1..Len(scores) : scores[q].mbid = mbid
            entry == PieceCounts(scores[p].annotations, pats, sch)
        IN  [sanai |-> entry.sanai, lines |-> entry.lines]]

-----------------------------------------------------------------------------
(* Section counts, extract_score_data.calculate_score_section_counts.  The *)
(* accumulator of the loops is [counts, sanai_count, err], counts being    *)
(* the piece's nested dict and err = TRUE once a KeyError is raised.       *)

\* Lines 240-251, from the line at position k on; line_count = k.
RECURSIVE CalcLinesLoop(_, _, _)
CalcLinesLoop(lines, k, sana_counts) ==
    IF k > Len(lines) \/ sana_counts.err THEN sana_counts
    ELSE \* for line_section in line['sections']: KeyError without the key
         IF ~Has(lines[k], "sections") THEN [sana_counts EXCEPT !.err = TRUE]
         ELSE CalcLinesLoop(lines, k + 1,
                  [sana_counts EXCEPT !.counts =
                      SetItem(@, "line_" \o ToString(k),
                              [section_count |-> Len(lines[k]["sections"])])])

\* Lines 232-253, from the sana at position m on; sana_count = m.
RECURSIVE CalcSanaiLoop(_, _, _)
CalcSanaiLoop(sanai, m, sanai_counts) ==
    IF m > Len(sanai) \/ sanai_counts.err THEN sanai_counts
    ELSE \* for line in sana['lines']: KeyError without the key
         IF ~Has(sanai[m], "lines") THEN [sanai_counts EXCEPT !.err = TRUE]
         ELSE LET lines == sanai[m]["lines"]
                  looped == CalcLinesLoop(lines, 1,
                                          [counts |-> <<>>, err |-> FALSE])
              IN  IF looped.err THEN [sanai_counts EXCEPT !.err = TRUE]
                  ELSE CalcSanaiLoop(sanai, m + 1,
                           [sanai_counts EXCEPT !.counts =
                               SetItem(@, "sana_" \o ToString(m),
                                       SetItem(looped.counts, "line_count",
                                               Len(lines)))])

\* Lines 223-257, from the section at position n on.
RECURSIVE CalcSectionsLoop(_, _, _)
CalcSectionsLoop(annotations_, n, acc) ==
    IF n > Len(annotations_) \/ acc.err THEN acc
    ELSE IF ~Has(annotations_[n], "sanai")
        THEN CalcSectionsLoop(annotations_, n + 1,
                 [acc EXCEPT !.counts =
                     SetItem(@, "sanai_count", acc.sanai_count)])
    ELSE LET sanai_count == acc.sanai_count + 1
             this_sanai == "sanai_" \o ToString(sanai_count)
             sanai == annotations_[n]["sanai"]
             looped == CalcSanaiLoop(sanai, 1,
                           [counts |-> IF Has(acc.counts, this_sanai)
                                           THEN acc.counts[this_sanai]
                                           ELSE <<>>,
                            err |-> FALSE])
         IN  IF looped.err THEN [acc EXCEPT !.err = TRUE]
             ELSE CalcSectionsLoop(annotations_, n + 1,
                      [acc EXCEPT
                          !.sanai_count = sanai_count,
                          !.counts =
                              SetItem(SetItem(@, this_sanai,
                                          SetItem(looped.counts, "sana_count",
                                                  Len(sanai))),
                                      "sanai_count", sanai_count)])

\* Lines 219-259, from the piece at position p on: sanai_count is set to 0
\* before this loop (line 217) and is not reset in it; counts is a fresh
\* dict for each piece.
RECURSIVE CalcPiecesLoop(_, _, _)
CalcPiecesLoop(scores_data_, p, acc) ==
    IF p > Len(scores_data_) \/ acc.err THEN acc
    ELSE LET looped == CalcSectionsLoop(scores_data_[p].annotations, 1,
                           [counts |-> <<>>, sanai_count |-> acc.sanai_count,
                            err |-> FALSE])
         IN  CalcPiecesLoop(scores_data_, p + 1,
                 [score_section_counts |->
                      SetItem(acc.score_section_counts, scores_data_[p].mbid,
                              looped.counts),
                  sanai_count |-> looped.sanai_count,
                  err |-> looped.err])

\* A KeyError (sana['lines'], line['sections']) propagates out of
\* calculate_score_section_counts.
SectionCountsRaises(scores_data_) ==
    CalcPiecesLoop(scores_data_, 1,
                   [score_section_counts |-> <<>>, sanai_count |-> 0,
                    err |-> FALSE]).err

\* The returned dict mbid -> counts (when no KeyError is raised).
calculate_score_section_counts(scores_data_) ==
    CalcPiecesLoop(scores_data_, 1,
                   [score_section_counts |-> <<>>, sanai_count |-> 0,
                    err |-> FALSE]).score_section_counts

-----------------------------------------------------------------------------
(* Specification of the corpus pipeline: a corpus as get_score_data builds *)
(* it is drawn, add_streams_to_score_data attaches the slices, then        *)
(* count_all_patterns_wrapper counts the patterns or                       *)
(* calculate_score_section_counts counts the nodes.                        *)

NodeAt(span) == [start |-> span[1], end |-> span[2]]

\* Spans of the nodes of the enumerated tree shapes, by position.
SectionSpan(n) == <<n - 1, n + 2>>
SanaSpan(m) == <<m - 1, m + 1>>
LineSpan(k) == <<k - 1, k>>
LineSectionSpan(j) == <<j - 1, j>>

\* A tree of nS sections, each with nSana sanai of nLines lines; line k has
\* k - 1 line-sections.  Section noSanai has no sanai key, sana leafSana no
\* 'lines' key and line bareLine no 'sections' key (0: no such node).
ShapeTree(nS, noSanai, nSana, leafSana, nLines, bareLine) ==
    LET Line(k) ==
            IF k = bareLine THEN NodeAt(LineSpan(k))
            ELSE SetItem(NodeAt(LineSpan(k)), "sections",
                         [j \in 1..(k - 1) |-> NodeAt(LineSectionSpan(j))])
        Sana(m) ==
            IF m = leafSana THEN NodeAt(SanaSpan(m))
            ELSE SetItem(NodeAt(SanaSpan(m)), "lines",
                         [k \in 1..nLines |-> Line(k)])
        Section(n) ==
            IF n = noSanai THEN NodeAt(SectionSpan(n))
            ELSE SetItem(NodeAt(SectionSpan(n)), "sanai",
                         [m \in 1..nSana |-> Sana(m)])
    IN  [n \in 1..nS |-> Section(n)]

ShapeTrees ==
    {ShapeTree(nS, noSanai, nSana, leafSana, nLines, bareLine) :
        nS \in 1..MaxSections, noSanai \in 0..MaxSections,
        nSana \in 0..MaxSanai, leafSana \in 0..MaxSanai,
        nLines \in 0..MaxLines, bareLine \in 0..MaxLines}

Spans == {<<s, e>> \in (0..MaxOffset) \X (0..MaxOffset) : s <= e}

\* One section holding one sana with two lines, the spans of the sana and
\* of the lines being free.
TwoLineTree(sanaSpan, span1, span2) ==
    <<SetItem(NodeAt(<<0, MaxOffset>>), "sanai",
              <<SetItem(NodeAt(sanaSpan), "lines",
                        <<NodeAt(span1), NodeAt(span2)>>)>>)>>

TwoLineTrees ==
    {TwoLineTree(sanaSpan, span1, span2) :
        sanaSpan \in {<<0, MaxOffset>>, <<1, 3>>},
        span1 \in Spans, span2 \in Spans}

Timeline1 == MkStream(<<"C", "D", "rest", "C", "D">>)
Timeline2 == MkTimeline(<<"C", "C", "D">>, <<2, 1, 1>>)

\* scores[mbid] = {'score': score, 'annotations': annotation['sections']}
Entry(mbid, sc, annotations) ==
    [mbid |-> mbid, score |-> sc, annotations |-> annotations]

SecondTrees == {ShapeTree(1, 0, 1, 0, 1, 0), ShapeTree(2, 1, 2, 0, 2, 0)}

\* A dict without one of its keys.
Without(d, key) == [k \in DOMAIN d \ {key} |-> d[k]]

\* One section holding one sana of two lines, the second line holding one
\* line-section; the node of the given level on the path to the
\* line-section lacks the given key.
MalformedTree(level, key) ==
    LET Drop(l, node) == IF l = level THEN Without(node, key) ELSE node
    IN  <<Drop(1, SetItem(NodeAt(SectionSpan(1)), "sanai",
            <<Drop(2, SetItem(NodeAt(SanaSpan(1)), "lines",
                <<NodeAt(LineSpan(1)),
                  Drop(3, SetItem(NodeAt(LineSpan(2)), "sections",
                      <<Drop(4, NodeAt(LineSectionSpan(1)))>>))>>))>>))>>

MalformedTrees ==
    {MalformedTree(level, key) : level \in 1..4, key \in {"start", "end"}}

Corpora ==
    {<<Entry("p1", Timeline1, t)>> : t \in ShapeTrees}
      \cup {<<Entry("p1", sc, t)>> :
                sc \in {Timeline1, Timeline2}, t \in TwoLineTrees}
      \cup {<<Entry("p1", Timeline1, t), Entry("p2", Timeline2, u)>> :
                t \in ShapeTrees, u \in SecondTrees}
      \cup {<<Entry("p1", Timeline1, t)>> : t \in MalformedTrees}
      \cup {<<Entry("p1", Timeline1, t), Entry("p2", Timeline2, u)>> :
                t \in MalformedTrees, u \in SecondTrees}
      \cup {<<Entry("p1", Timeline1, u), Entry("p2", Timeline2, t)>> :
                t \in MalformedTrees, u \in SecondTrees}

PatternLists == {<<<<"C">>, <<"C", "D">>>>, <<<<"D">>>>}

InitCorpus ==
    /\ scores_data \in Corpora
    /\ pc = "loaded"
    /\ patterns = <<>>
    /\ scheme = None
    /\ all_centos_counts = None
    /\ score_section_counts = None
    /\ IdleAgg
    /\ IdleLoad
    /\ score = <<>>
    /\ ran = {}
    /\ pattern = <<>>
    /\ quartile = None
    /\ decile = None
    /\ start_offset = 0
    /\ end_offset = 0
    /\ extracted_part = None

AddStreams ==
    /\ pc = "loaded"
    /\ IF \E p \in 1..Len(scores_data) : TreeRaises(scores_data[p].annotations)
          THEN /\ scores_data' = AddStreamsAborted(scores_data)
               /\ pc' = "ExtractKeyError"
          ELSE /\ scores_data' = add_streams_to_score_data(scores_data)
               /\ pc' = "extracted"
    /\ UNCHANGED <<patterns, scheme, all_centos_counts,
                   score_section_counts, score, ran, countVars, sliceVars,
                   aggVars, loadVars>>

CountAllPatterns ==
    /\ pc = "extracted"
    /\ \E pats \in PatternLists, sch \in {"quartile", "decile"} :
          /\ patterns' = pats
          /\ scheme' = sch
          /\ IF WrapperRaises(scores_data, pats, sch)
                THEN /\ pc' = "KeyError"
                     /\ all_centos_counts' = None
                ELSE /\ pc' = "counted"
                     /\ all_centos_counts' =
                            count_all_patterns_wrapper(scores_data, pats, sch)
    /\ UNCHANGED <<scores_data, score_section_counts, score, ran, countVars,
                   sliceVars, aggVars, loadVars>>

CalculateSectionCounts ==
    /\ pc = "extracted"
    /\ IF SectionCountsRaises(scores_data)
          THEN /\ pc' = "SectionCountsKeyError"
               /\ score_section_counts' = None
          ELSE /\ pc' = "section_counts"
               /\ score_section_counts' =
                      calculate_score_section_counts(scores_data)
    /\ UNCHANGED <<scores_data, patterns, scheme, all_centos_counts, score,
                   ran, countVars, sliceVars, aggVars, loadVars>>

NextCorpus == AddStreams \/ CountAllPatterns \/ CalculateSectionCounts

SpecCorpus == InitCorpus /\ [][NextCorpus]_vars

-----------------------------------------------------------------------------
(* Properties of the section tree extractor and of the corpus wrapper.     *)

\* The events of a timeline whose offset lies in [start, end), in order.
SliceOf(sc, start, end) ==
    SelectSeq(sc, LAMBDA el : start <= el.offset /\ el.offset < end)

\* new is the node old with its slice attached, and so are its children,
\* which are as many as before and in the same order.
RECURSIVE NodeExtracted(_, _, _, _)
NodeExtracted(level, new, old, sc) ==
    /\ DOMAIN new = DOMAIN old \cup {"score"}
    /\ \A key \in DOMAIN old \ {ChildKey(level)} : new[key] = old[key]
    /\ new["score"] = SliceOf(sc, old["start"], old["end"])
    /\ Has(old, ChildKey(level)) =>
          /\ Len(new[ChildKey(level)]) = Len(old[ChildKey(level)])
          /\ \A k \in 1..Len(old[ChildKey(level)]) :
                NodeExtracted(level + 1, new[ChildKey(level)][k],
                              old[ChildKey(level)][k], sc)

\* C8: extract_sections (run by add_streams_to_score_data on every piece)
\* leaves every node of every level present with a 'score' equal to the
\* slice of the piece's timeline over the node's own [start, end), and
\* keeps the shape of the tree and the order of the children.
C8_EveryNodeCarriesItsSlice ==
    [][(pc = "loaded" /\ pc' = "extracted") =>
          /\ Len(scores_data') = Len(scores_data)
          /\ \A p \in 1..Len(scores_data) :
                /\ scores_data'[p].mbid = scores_data[p].mbid
                /\ Len(scores_data'[p].annotations)
                     = Len(scores_data[p].annotations)
                /\ \A n \in 1..Len(scores_data[p].annotations) :
                      NodeExtracted(1, scores_data'[p].annotations[n],
                                    scores_data[p].annotations[n],
                                    scores_data[p].score)]_vars

\* An extracted piece with all four levels, whose line-section carries a
\* slice different from its line's, next to a sana without lines.
C8_Witness ==
    /\ pc = "extracted"
    /\ \E p \in 1..Len(scores_data) :
       \E n \in 1..Len(scores_data[p].annotations) :
          LET section == scores_data[p].annotations[n] IN
          /\ Has(section, "sanai")
          /\ \E m \in 1..Len(section["sanai"]) :
                ~Has(section["sanai"][m], "lines")
          /\ \E m \in 1..Len(section["sanai"]) :
                LET sana == section["sanai"][m] IN
                /\ Has(sana, "lines")
                /\ \E k \in 1..Len(sana["lines"]) :
                      LET line == sana["lines"][k] IN
                      /\ Has(line, "sections")
                      /\ Len(line["sections"]) > 0
                      /\ line["sections"][1]["score"] # line["score"]
                      /\ line["sections"][1]["score"] # <<>>

\* The tree has one section holding one sana with two lines.
IsTwoLineTree(tree) ==
    /\ Len(tree) = 1
    /\ Has(tree[1], "sanai")
    /\ Len(tree[1]["sanai"]) = 1
    /\ Has(tree[1]["sanai"][1], "lines")
    /\ Len(tree[1]["sanai"][1]["lines"]) = 2

InSpan(el, node) == node["start"] <= el.offset /\ el.offset < node["end"]

\* The two lines' slices share no event and their concatenation in line
\* order is the sana's slice restricted to the union of the line spans.
TwoLinesPartition(sana) ==
    LET line1 == sana["lines"][1]
        line2 == sana["lines"][2]
    IN  /\ \A a \in 1..Len(line1["score"]) : \A b \in 1..Len(line2["score"]) :
              line1["score"][a] # line2["score"][b]
        /\ line1["score"] \o line2["score"]
             = SelectSeq(sana["score"],
                         LAMBDA el : InSpan(el, line1) \/ InSpan(el, line2))

\* C9 (as stated): for every tree with one section, one sana and two
\* lines, after extraction the two lines partition the sana's slice over
\* the union of their spans.
C9_TwoLinesPartitionAnyTree ==
    pc = "extracted" =>
        \A p \in 1..Len(scores_data) :
            IsTwoLineTree(scores_data[p].annotations) =>
                TwoLinesPartition(scores_data[p].annotations[1]["sanai"][1])

\* The first line ends no later than the second begins, and both lie
\* within the span of the sana.
LinesConsecutiveInSana(sana) ==
    LET line1 == sana["lines"][1]
        line2 == sana["lines"][2]
    IN  /\ line1["end"] <= line2["start"]
        /\ sana["start"] <= line1["start"]
        /\ line2["end"] <= sana["end"]

\* C9 (amended): the same, for trees whose two line spans are disjoint, in
\* ascending order and inside the sana's span.
C9_TwoLinesPartitionConsecutive ==
    pc = "extracted" =>
        \A p \in 1..Len(scores_data) :
            LET tree == scores_data[p].annotations IN
            (IsTwoLineTree(tree) /\ LinesConsecutiveInSana(tree[1]["sanai"][1]))
                => TwoLinesPartition(tree[1]["sanai"][1])

\* Both lines hold events, and the sana holds an event of neither line.
C9_Witness ==
    /\ pc = "extracted"
    /\ \E p \in 1..Len(scores_data) :
          LET tree == scores_data[p].annotations IN
          /\ IsTwoLineTree(tree)
          /\ LinesConsecutiveInSana(tree[1]["sanai"][1])
          /\ LET sana == tree[1]["sanai"][1] IN
             /\ sana["lines"][1]["score"] # <<>>
             /\ sana["lines"][2]["score"] # <<>>
             /\ Len(sana["score"]) > Len(sana["lines"][1]["score"])
                                       + Len(sana["lines"][2]["score"])

\* The number of sana nodes / of line nodes of a tree.
RECURSIVE SumLens(_, _)
SumLens(nodes, key) ==
    IF nodes = <<>> THEN 0
    ELSE (IF Has(Head(nodes), key) THEN Len(Head(nodes)[key]) ELSE 0)
            + SumLens(Tail(nodes), key)

SanaNodes(tree) == SumLens(tree, "sanai")

RECURSIVE LineNodes(_)
LineNodes(tree) ==
    IF tree = <<>> THEN 0
    ELSE (IF Has(Head(tree), "sanai")
             THEN SumLens(Head(tree)["sanai"], "lines") ELSE 0)
            + LineNodes(Tail(tree))

ExpectedSanaLabels(tree) ==
    {WhichSana(n, m) :
        <<n, m>> \in {<<n, m>> \in (1..Len(tree)) \X (1..MaxSanai + 1) :
                        Has(tree[n], "sanai") /\ m <= Len(tree[n]["sanai"])}}

ExpectedLineLabels(tree) ==
    {WhichLine(WhichSana(t[1], t[2]), t[3]) :
        t \in {t \in (1..Len(tree)) \X (1..MaxSanai + 1) \X (1..MaxLines + 1) :
                 /\ Has(tree[t[1]], "sanai")
                 /\ t[2] <= Len(tree[t[1]]["sanai"])
                 /\ Has(tree[t[1]]["sanai"][t[2]], "lines")
                 /\ t[3] <= Len(tree[t[1]]["sanai"][t[2]]["lines"])}}

\* C10: count_all_patterns_wrapper returns, for every piece, a 'sanai'
\* table with exactly one entry per sana node and a 'lines' table with
\* exactly one entry per line node, labelled section_<n>_sana_<m> and
\* section_<n>_sana_<m>_line_<k> by 1-based position within the piece.
C10_OneLabelledEntryPerNode ==
    pc \in {"counted", "KeyError"} =>
        /\ pc = "counted"
        /\ \A p \in 1..Len(scores_data) :
              LET tree  == scores_data[p].annotations
                  entry == all_centos_counts[scores_data[p].mbid]
              IN  /\ DOMAIN entry.sanai = ExpectedSanaLabels(tree)
                  /\ Cardinality(DOMAIN entry.sanai) = SanaNodes(tree)
                  /\ DOMAIN entry.lines = ExpectedLineLabels(tree)
                  /\ Cardinality(DOMAIN entry.lines) = LineNodes(tree)

-----------------------------------------------------------------------------
(* Position tables, score_data_processing.count_centos_positions and       *)
(* seg2_score_data_processing.count_centos_positions.  A DataFrame is the  *)
(* sequence of its rows, a row is [Pattern, vals] with vals the function   *)
(* from the names of the bucket columns to the cell values.                *)

\* The items of a dict as a sequence.  The order of the items of one dict
\* is fixed; no result modelled here depends on it.
RECURSIVE SetToSeq(_)
SetToSeq(S) ==
    IF S = {} THEN <<>>
    ELSE LET x == CHOOSE y \in S : TRUE IN <<x>> \o SetToSeq(S \ {x})

RECURSIVE Flatten(_)
Flatten(seqs) == IF seqs = <<>> THEN <<>> ELSE Head(seqs) \o Flatten(Tail(seqs))

\* The pattern keys of the enumerated pattern sources, in the order in
\* which groupby sorts its group keys.
KeyOrder == <<"C", "CD", "D", "DD">>

\* Series.sum() of the column col of the rows.
RECURSIVE ColumnSum(_, _)
ColumnSum(rows, col) ==
    IF rows = <<>> THEN 0
    ELSE Head(rows).vals[col] + ColumnSum(Tail(rows), col)

\* A groupby that keeps the last row of each group instead of the sum.
GroupBySum_last(frame, cols) ==
    LET present == {frame[k].Pattern : k \in 1..Len(frame)}
        keys == SelectSeq(KeyOrder, LAMBDA key : key \in present)
        Group(key) == SelectSeq(frame, LAMBDA row : row.Pattern = key)
    IN  [k \in 1..Len(keys) |->
            [Pattern |-> keys[k],
             vals |-> Group(keys[k])[Len(Group(keys[k]))].vals]]

\* frame.groupby('Pattern').sum().reset_index(): one row per distinct
\* Pattern, sorted by Pattern, every other column summed over the group.
GroupBySum(frame, cols) ==
    LET present == {frame[k].Pattern : k \in 1..Len(frame)}
        keys == SelectSeq(KeyOrder, LAMBDA key : key \in present)
        Group(key) == SelectSeq(frame, LAMBDA row : row.Pattern = key)
    IN  [k \in 1..Len(keys) |->
            [Pattern |-> keys[k],
             vals |-> [col \in cols |-> ColumnSum(Group(keys[k]), col)]]]

\* The (pattern, counts) pairs visited by the two loops over the items of
\* centos_counts_dict, in turn.
PatternRows(centos_counts_dict_) ==
    Flatten([i \in 1..Cardinality(DOMAIN centos_counts_dict_) |->
        LET section == SetToSeq(DOMAIN centos_counts_dict_)[i]
            pats == centos_counts_dict_[section]
            keys == SetToSeq(DOMAIN pats)
        IN  [j \in 1..Len(keys) |->
                [Pattern |-> keys[j], counts |-> pats[keys[j]]]]])

QuartileColumns == {"Start 25%", "Middle 50%", "End 25%"}

\* score_data_processing.count_centos_positions
count_centos_positions(centos_counts_dict_) ==
    LET visited == PatternRows(centos_counts_dict_)
        pattern_counts ==
            [k \in 1..Len(visited) |->
                [Pattern |-> visited[k].Pattern,
                 vals |-> [Start |-> visited[k].counts[1],
                           Middle |-> visited[k].counts[2],
                           End |-> visited[k].counts[3]]]]
        grouped == GroupBySum(pattern_counts, {"Start", "Middle", "End"})
    IN  [k \in 1..Len(grouped) |->
            [Pattern |-> grouped[k].Pattern,
             vals |-> [col \in QuartileColumns |->
                          CASE col = "Start 25%" -> grouped[k].vals["Start"]
                            [] col = "Middle 50%" -> grouped[k].vals["Middle"]
                            [] col = "End 25%" -> grouped[k].vals["End"]]]]

\* '10th_Percentile' .. '100th_Percentile', the columns before the renaming,
\* and '10th Percentile' .. '100th Percentile', the columns after it.
PercentileNames ==
    <<"10th_Percentile", "20th_Percentile", "30th_Percentile",
      "40th_Percentile", "50th_Percentile", "60th_Percentile",
      "70th_Percentile", "80th_Percentile", "90th_Percentile",
      "100th_Percentile">>

DecileColumnNames ==
    <<"10th Percentile", "20th Percentile", "30th Percentile",
      "40th Percentile", "50th Percentile", "60th Percentile",
      "70th Percentile", "80th Percentile", "90th Percentile",
      "100th Percentile">>

DecileColumns == {DecileColumnNames[k] : k \in 1..Len(DecileColumnNames)}

IndexIn(seq, x) == CHOOSE k \in 1..Len(seq) : seq[k] = x

\* seg2_score_data_processing.count_centos_positions
seg2_count_centos_positions(centos_counts_dict_) ==
    LET names == {PercentileNames[k] : k \in 1..Len(PercentileNames)}
        visited == PatternRows(centos_counts_dict_)
        pattern_counts ==
            [k \in 1..Len(visited) |->
                [Pattern |-> visited[k].Pattern,
                 vals |-> [name \in names |->
                              visited[k].counts[
                                  DecileKeys[IndexIn(PercentileNames, name)]]]]]
        grouped == GroupBySum(pattern_counts, names)
    IN  [k \in 1..Len(grouped) |->
            [Pattern |-> grouped[k].Pattern,
             vals |-> [col \in DecileColumns |->
                          grouped[k].vals[
                              PercentileNames[IndexIn(DecileColumnNames, col)]]]]]

\* centos_positions_counter(centos_counts_dict) for the counter of the
\* given scheme.
PositionsCounter(sch, centos_counts_dict_) ==
    IF sch = "quartile" THEN count_centos_positions(centos_counts_dict_)
                        ELSE seg2_count_centos_positions(centos_counts_dict_)

Columns(sch) == IF sch = "quartile" THEN QuartileColumns ELSE DecileColumns
-----------------------------------------------------------------------------
(* Titles and grouping.  A title is a Python str, kept as the sequence of  *)
(* its characters; a mode label is a str too.                              *)

\* CENTOS_LIST_NAMES
AminChachooCentos ==
    <<"A", "m", "i", "n", " ", "C", "h", "a", "c", "h", "o", "o", " ", "c",
      "e", "n", "t", "o", "s", " ">>
TfIdfCentos ==
    <<"T", "F", " ", "I", "D", "F", " ", "c", "e", "n", "t", "o", "s", " ">>
SiaCentos ==
    <<"S", "I", "A", " ", "c", "e", "n", "t", "o", "s", " ">>
MgpdCentos ==
    <<"M", "G", "P", "D", " ", "c", "e", "n", "t", "o", "s", " ">>

CENTOS_LIST_NAMES == <<AminChachooCentos, TfIdfCentos, SiaCentos, MgpdCentos>>

\* ': sanai of ', ': lines of ' and the name of the tab (its diacritics
\* dropped).
SanaiOf ==
    <<":", " ", "s", "a", "n", "a", "i", " ", "o", "f", " ">>
LinesOf ==
    <<":", " ", "l", "i", "n", "e", "s", " ", "o", "f", " ">>
TabAlMaya ==
    <<"t", "a", "b", " ", "a", "l", "-", "m", "a", "y", "a", " ">>

\* The sentinel label 'none'.
NoneLabel == <<"n", "o", "n", "e">>

\* extract_score_data.get_mizans_of_scores: the set of the 'mizan' values
\* of the piece's top-level sections.
get_mizans_of_scores(scores_data_) ==
    [mbid \in {scores_data_[p].mbid : p \in 1..Len(scores_data_)} |->
        LET p == CHOOSE q \in 1..Len(scores_data_) :
                     scores_data_[q].mbid = mbid
            annotations_ == scores_data_[p].annotations
        IN  {annotations_[k]["mizan"] : k \in 1..Len(annotations_)}]

\* The orders in which a set can be iterated.
Orderings(S) ==
    {seq \in [1..Cardinality(S) -> S] :
        \A i, j \in 1..Cardinality(S) : i # j => seq[i] # seq[j]}

\* mizan_values and tab_mizan_name with every label kept.
TabMizanName_unfiltered(mizans) ==
    TabAlMaya \o Flatten(mizans)

\* mizan_values = [mizan for mizan in .. if mizan != 'none'];
\* tab_mizan_name = tab + ''.join(str(mizan) for mizan in mizan_values).
\* mizans is the set in the order of its iteration.
TabMizanName(mizans) ==
    TabAlMaya \o Flatten(SelectSeq(mizans, LAMBDA mizan : mizan # NoneLabel))

\* d.get(key, {})
Get(d, key) == IF Has(d, key) THEN d[key] ELSE <<>>

\* One pass of the inner loop of get_centos_counts_per_tab_mizan_score, for
\* the source i and the piece mbid; acc holds the two dicts title -> table.
TitleStep(acc, i, mbid, centos_counts_, mizan_iter, sch) ==
    LET count_data == centos_counts_[i][mbid]
        tab_mizan_name == TabMizanName(mizan_iter[mbid])
    IN  [sanai |-> SetItem(acc.sanai,
                           CENTOS_LIST_NAMES[i] \o SanaiOf \o tab_mizan_name,
                           PositionsCounter(sch, Get(count_data, "sanai"))),
         lines |-> SetItem(acc.lines,
                           CENTOS_LIST_NAMES[i] \o LinesOf \o tab_mizan_name,
                           PositionsCounter(sch, Get(count_data, "lines")))]

\* The loops over the sources and over the items of each source; order is
\* the order of the items of a source, that of the corpus.
RECURSIVE TitlesLoop(_, _, _, _, _, _, _)
TitlesLoop(acc, i, k, order, centos_counts_, mizan_iter, sch) ==
    IF i > Len(centos_counts_) THEN acc
    ELSE IF k > Len(order)
        THEN TitlesLoop(acc, i + 1, 1, order, centos_counts_, mizan_iter, sch)
        ELSE TitlesLoop(TitleStep(acc, i, order[k], centos_counts_,
                                  mizan_iter, sch),
                        i, k + 1, order, centos_counts_, mizan_iter, sch)

\* score_data_processing.get_centos_counts_per_tab_mizan_score; the pair
\* it returns is the record [sanai, lines].
get_centos_counts_per_tab_mizan_score(centos_counts_, mizan_iter, sch, order) ==
    TitlesLoop([sanai |-> <<>>, lines |-> <<>>], 1, 1, order, centos_counts_,
               mizan_iter, sch)

\* key.split(':')[0]
BeforeColon(key) ==
    LET colons == {k \in 1..Len(key) : key[k] = ":"}
    IN  IF colons = {} THEN key
        ELSE SubSeq(key, 1,
                    (CHOOSE k \in colons : \A j \in colons : k <= j) - 1)

\* str.strip()
RECURSIVE Strip(_)
Strip(str) ==
    IF str = <<>> THEN str
    ELSE IF Head(str) = " " THEN Strip(Tail(str))
    ELSE IF str[Len(str)] = " " THEN Strip(SubSeq(str, 1, Len(str) - 1))
    ELSE str

\* A merge that keeps, for each prefix, the first table only.
count_distribution_over_dataset_noConcat(cumulative_centos_positions, cols) ==
    LET Prefix(key) == Strip(BeforeColon(key))
        titles == DOMAIN cumulative_centos_positions
    IN  [prefix \in {Prefix(key) : key \in titles} |->
            LET keys == SetToSeq({key \in titles : Prefix(key) = prefix})
            IN  GroupBySum(cumulative_centos_positions[keys[1]], cols)]

\* score_data_processing.count_distribution_over_dataset: the tables of
\* one prefix are concatenated, then grouped by Pattern and summed.
count_distribution_over_dataset(cumulative_centos_positions, cols) ==
    LET Prefix(key) == Strip(BeforeColon(key))
        titles == DOMAIN cumulative_centos_positions
    IN  [prefix \in {Prefix(key) : key \in titles} |->
            LET keys == SetToSeq({key \in titles : Prefix(key) = prefix})
            IN  GroupBySum(
                    Flatten([k \in 1..Len(keys) |->
                                cumulative_centos_positions[keys[k]]]),
                    cols)]

-----------------------------------------------------------------------------
(* Normalisation, combine_normalized_position_counts of both modules.  A   *)
(* float is kept as the exact fraction n / d, as NaN or as inf.            *)

RECURSIVE Gcd(_, _)
Gcd(a, b) == IF b = 0 THEN a ELSE Gcd(b, a % b)

Frac(n, d) ==
    LET g == Gcd(n, d) IN [kind |-> "finite", n |-> n \div g, d |-> d \div g]

NaN == [kind |-> "nan", n |-> 0, d |-> 1]
Inf == [kind |-> "inf", n |-> 0, d |-> 1]

\* a / b of two integer cells as DataFrame.div computes it: 0 / 0 is NaN,
\* a / 0 is inf, nothing is raised.
TrueDiv(a, b) ==
    IF b # 0 THEN Frac(a, b) ELSE IF a = 0 THEN NaN ELSE Inf

FloatAdd(x, y) ==
    IF x.kind = "nan" \/ y.kind = "nan" THEN NaN
    ELSE IF x.kind = "inf" \/ y.kind = "inf" THEN Inf
    ELSE Frac(x.n * y.d + y.n * x.d, x.d * y.d)

\* A sum that lets NaN propagate (skipna=False).
RECURSIVE SeriesSum_keepNaN(_)
SeriesSum_keepNaN(values) ==
    IF values = <<>> THEN Frac(0, 1)
    ELSE FloatAdd(Head(values), SeriesSum_keepNaN(Tail(values)))

\* Series.sum() of a float column: skipna=True is the default, the NaN
\* cells are left out of the sum.
RECURSIVE SeriesSum(_)
SeriesSum(values) ==
    IF values = <<>> THEN Frac(0, 1)
    ELSE IF Head(values).kind = "nan" THEN SeriesSum(Tail(values))
    ELSE FloatAdd(Head(values), SeriesSum(Tail(values)))

RECURSIVE SumSeq(_)
SumSeq(ints) == IF ints = <<>> THEN 0 ELSE Head(ints) + SumSeq(Tail(ints))

\* frame[cols].sum(axis=1) of one row
RowSum(row, cols) ==
    LET names == SetToSeq(cols)
    IN  SumSeq([k \in 1..Len(names) |-> row.vals[names[k]]])

\* The loop over scores_data.values(): for each table the rows are divided
\* by their sums and the sum of each normalised column is added to the
\* running total of that column.
RECURSIVE CombineLoop(_, _, _)
CombineLoop(frames, cols, totals) ==
    IF frames = <<>> THEN totals
    ELSE LET frame == Head(frames)
             normalized_counts ==
                 [k \in 1..Len(frame) |->
                     [col \in cols |->
                         TrueDiv(frame[k].vals[col], RowSum(frame[k], cols))]]
         IN  CombineLoop(Tail(frames), cols,
                 [col \in cols |->
                     FloatAdd(totals[col],
                              SeriesSum([k \in 1..Len(frame) |->
                                            normalized_counts[k][col]]))])

\* score_data_processing.combine_normalized_position_counts
combine_normalized_position_counts(scores_data_) ==
    CombineLoop([i \in 1..Cardinality(DOMAIN scores_data_) |->
                    scores_data_[SetToSeq(DOMAIN scores_data_)[i]]],
                QuartileColumns, [col \in QuartileColumns |-> Frac(0, 1)])

\* seg2_score_data_processing.combine_normalized_position_counts
seg2_combine_normalized_position_counts(scores_data_) ==
    CombineLoop([i \in 1..Cardinality(DOMAIN scores_data_) |->
                    scores_data_[SetToSeq(DOMAIN scores_data_)[i]]],
                DecileColumns, [col \in DecileColumns |-> Frac(0, 1)])

Combiner(sch, scores_data_) ==
    IF sch = "quartile" THEN combine_normalized_position_counts(scores_data_)
    ELSE seg2_combine_normalized_position_counts(scores_data_)
-----------------------------------------------------------------------------
(* Specification of the aggregation: an extracted corpus whose sections    *)
(* carry mode labels is drawn; the wrapper counts the patterns of each     *)
(* pattern source, then the tables are built per title, merged per source  *)
(* and normalised.                                                         *)

Mizans == {NoneLabel, <<"b", "s", "i", "t">>, <<"d", "a", "r", "j">>}

\* The tree with the mode label mizans[n] attached to its section n.
WithMizans(tree, mizans) ==
    [n \in 1..Len(tree) |-> SetItem(tree[n], "mizan", mizans[n])]

AggTimeline == MkStream(<<"C", "D", "C", "C", "D", "rest", "C", "D">>)

\* Two sections: the first holds a sana of two lines and a sana of one
\* line, the second no sanai.
AggTree ==
    <<SetItem(NodeAt(<<0, 8>>), "sanai",
              <<SetItem(NodeAt(<<0, 4>>), "lines",
                        <<NodeAt(<<0, 2>>), NodeAt(<<2, 4>>)>>),
                SetItem(NodeAt(<<4, 8>>), "lines", <<NodeAt(<<4, 8>>)>>)>>),
      NodeAt(<<8, 8>>)>>

FirstAggTrees ==
    {WithMizans(AggTree, mizans) : mizans \in [1..2 -> Mizans]}

\* One section: with one sana of one line, or without sanai.
SecondAggTrees ==
    {WithMizans(tree, mizans) :
        tree \in {ShapeTree(1, 0, 1, 0, 1, 0), ShapeTree(1, 1, 0, 0, 0, 0)},
        mizans \in [1..1 -> Mizans]}

AggCorpora ==
    {add_streams_to_score_data(corpus) :
        corpus \in {<<Entry("p1", AggTimeline, t)>> : t \in FirstAggTrees}
            \cup {<<Entry("p1", AggTimeline, t), Entry("p2", Timeline2, u)>> :
                     t \in FirstAggTrees, u \in SecondAggTrees}}

\* The pattern lists of the sources, in the order of CENTOS_LIST_NAMES.
SourceLists ==
    {<<<<<<"C">>, <<"C", "D">>>>>>,
     <<<<<<"C">>, <<"C", "D">>>>, <<<<"D">>, <<"D", "D">>>>>>}

InitAgg ==
    /\ scores_data \in AggCorpora
    /\ pc = "extracted"
    /\ patterns = <<>>
    /\ scheme = None
    /\ all_centos_counts = None
    /\ score_section_counts = None
    /\ IdleAgg
    /\ IdleLoad
    /\ score = <<>>
    /\ ran = {}
    /\ pattern = <<>>
    /\ quartile = None
    /\ decile = None
    /\ start_offset = 0
    /\ end_offset = 0
    /\ extracted_part = None

nonAggVars == <<score, ran, countVars, sliceVars, loadVars, patterns,
                all_centos_counts, score_section_counts>>

\* count_all_patterns_wrapper is applied to the corpus once per source.
CountSources ==
    /\ pc = "extracted"
    /\ \E sources \in SourceLists, sch \in {"quartile", "decile"} :
          /\ \A i \in 1..Len(sources) :
                 ~WrapperRaises(scores_data, sources[i], sch)
          /\ scheme' = sch
          /\ centos_counts' =
                 [i \in 1..Len(sources) |->
                     count_all_patterns_wrapper(scores_data, sources[i], sch)]
    /\ pc' = "counted"
    /\ UNCHANGED <<scores_data, scores_mizan_dict, centos_counts_dict, df,
                   cumulative, merged, total_counts, nonAggVars>>

\* count_centos_positions is applied to the sanai or to the lines counts of
\* one piece under one source.
CountCentosPositions ==
    /\ pc = "counted"
    /\ \E i \in 1..Len(centos_counts), level \in {"sanai", "lines"} :
          \E mbid \in DOMAIN centos_counts[i] :
              /\ centos_counts_dict' = centos_counts[i][mbid][level]
              /\ df' = PositionsCounter(scheme, centos_counts[i][mbid][level])
    /\ pc' = "positions"
    /\ UNCHANGED <<scores_data, scheme, centos_counts, scores_mizan_dict,
                   cumulative, merged, total_counts, nonAggVars>>

GetMizans ==
    /\ pc = "counted"
    /\ scores_mizan_dict' = get_mizans_of_scores(scores_data)
    /\ pc' = "mizans"
    /\ UNCHANGED <<scores_data, scheme, centos_counts, centos_counts_dict, df,
                   cumulative, merged, total_counts, nonAggVars>>

\* The order in which each set of labels is iterated is not determined.
GetCentosCounts ==
    /\ pc = "mizans"
    /\ \E mizan_iter \in
             [DOMAIN scores_mizan_dict ->
                 UNION {Orderings(scores_mizan_dict[mbid]) :
                            mbid \in DOMAIN scores_mizan_dict}] :
          /\ \A mbid \in DOMAIN scores_mizan_dict :
                 mizan_iter[mbid] \in Orderings(scores_mizan_dict[mbid])
          /\ cumulative' =
                 get_centos_counts_per_tab_mizan_score(
                     centos_counts, mizan_iter, scheme,
                     [p \in 1..Len(scores_data) |-> scores_data[p].mbid])
    /\ pc' = "titled"
    /\ UNCHANGED <<scores_data, scheme, centos_counts, scores_mizan_dict,
                   centos_counts_dict, df, merged, total_counts, nonAggVars>>

CountDistribution ==
    /\ pc = "titled"
    /\ merged' =
           [level \in {"sanai", "lines"} |->
               count_distribution_over_dataset(cumulative[level],
                                               Columns(scheme))]
    /\ pc' = "merged"
    /\ UNCHANGED <<scores_data, scheme, centos_counts, scores_mizan_dict,
                   centos_counts_dict, df, cumulative, total_counts,
                   nonAggVars>>

CombineNormalized ==
    /\ pc = "merged"
    /\ total_counts' =
           [level \in {"sanai", "lines"} |-> Combiner(scheme, merged[level])]
    /\ pc' = "combined"
    /\ UNCHANGED <<scores_data, scheme, centos_counts, scores_mizan_dict,
                   centos_counts_dict, df, cumulative, merged, nonAggVars>>

NextAgg ==
    \/ CountSources
    \/ CountCentosPositions
    \/ GetMizans
    \/ GetCentosCounts
    \/ CountDistribution
    \/ CombineNormalized

SpecAgg == InitAgg /\ [][NextAgg]_vars

-----------------------------------------------------------------------------
(* Properties of the position tables and of their aggregation.             *)

\* The count a counter's result holds for the bucket of a table column.
BucketOf(sch, counts, col) ==
    IF sch = "quartile"
        THEN CASE col = "Start 25%" -> counts[1]
               [] col = "Middle 50%" -> counts[2]
               [] col = "End 25%" -> counts[3]
        ELSE counts[DecileKeys[IndexIn(DecileColumnNames, col)]]

\* The pattern keys of the nested counts label -> pattern -> counts.
PatternKeys(nested) == UNION {DOMAIN nested[label] : label \in DOMAIN nested}

\* The sum over the labels of the count of one pattern for one bucket.
SumOverLabels(sch, nested, key, col) ==
    LET Count(label) ==
            IF Has(nested[label], key)
                THEN BucketOf(sch, nested[label][key], col) ELSE 0
        labels == SetToSeq(DOMAIN nested)
    IN  SumSeq([i \in 1..Len(labels) |-> Count(labels[i])])

\* The table has exactly one row per pattern key of the nested counts, and
\* each cell is the sum over the labels.
IsSummedTable(frame, sch, nested) ==
    /\ Len(frame) = Cardinality(PatternKeys(nested))
    /\ {frame[k].Pattern : k \in 1..Len(frame)} = PatternKeys(nested)
    /\ \A k \in 1..Len(frame) :
           /\ DOMAIN frame[k].vals = Columns(sch)
           /\ \A col \in Columns(sch) :
                  frame[k].vals[col] =
                      SumOverLabels(sch, nested, frame[k].Pattern, col)

\* C11: the table count_centos_positions returns (either scheme) has
\* exactly one row per distinct pattern key of the nested counts, and each
\* bucket column of a row is the sum, over all labels, of that pattern's
\* count for that bucket.
C11_OneSummedRowPerPattern ==
    pc = "positions" => IsSummedTable(df, scheme, centos_counts_dict)

\* A table built from two labels that both count the same pattern in the
\* same bucket, holding more than one pattern.
C11_Witness ==
    /\ pc = "positions"
    /\ Len(df) >= 2
    /\ \E l1, l2 \in DOMAIN centos_counts_dict :
          /\ l1 # l2
          /\ \E key \in DOMAIN centos_counts_dict[l1], col \in Columns(scheme) :
                /\ BucketOf(scheme, centos_counts_dict[l1][key], col) > 0
                /\ BucketOf(scheme, centos_counts_dict[l2][key], col) > 0

\* The prefix under which count_distribution_over_dataset files a title.
PrefixOf(title) == Strip(BeforeColon(title))

\* The titles of the tables that go into the group of a prefix.
GroupOf(tables, prefix) == {title \in DOMAIN tables : PrefixOf(title) = prefix}

\* The Pattern values of a table.
PatternsOf(frame) == {frame[k].Pattern : k \in 1..Len(frame)}

\* The sum of the column col over the rows of the given pattern in the
\* tables of the given titles.
SumOverTables(tables, titles, key, col) ==
    LET seq == SetToSeq(titles)
    IN  SumSeq([i \in 1..Len(seq) |->
                   ColumnSum(SelectSeq(tables[seq[i]],
                                       LAMBDA row : row.Pattern = key), col)])

\* The number of rows of the tables of the given titles.
RowsOfTables(tables, titles) ==
    LET seq == SetToSeq(titles)
    IN  SumSeq([i \in 1..Len(seq) |-> Len(tables[seq[i]])])

IsMergedByPrefix(result, tables, cols) ==
    /\ DOMAIN result = {PrefixOf(title) : title \in DOMAIN tables}
    /\ \A prefix \in DOMAIN result :
           LET group == GroupOf(tables, prefix)
               keys == UNION {PatternsOf(tables[title]) : title \in group}
               frame == result[prefix]
           IN  /\ Len(frame) = Cardinality(keys)
               /\ PatternsOf(frame) = keys
               /\ Len(frame) <= RowsOfTables(tables, group)
               /\ \A k \in 1..Len(frame), col \in cols :
                      frame[k].vals[col] =
                          SumOverTables(tables, group, frame[k].Pattern, col)

\* C12: count_distribution_over_dataset merges the tables whose titles
\* share the prefix before ':' (stripped) into one table with exactly one
\* row per distinct Pattern, each bucket being the sum of that pattern's
\* values over the tables of the group; a pattern absent from some table
\* of the group still appears, and the merged table has at most as many
\* rows as the tables of the group together.
C12_MergedTableSumsTheGroup ==
    pc \in {"merged", "combined"} =>
        \A level \in {"sanai", "lines"} :
            IsMergedByPrefix(merged[level], cumulative[level], Columns(scheme))

\* Two tables of one group hold the same pattern with a positive count in
\* the same bucket, and the merged row holds their sum.
C12_Witness ==
    /\ pc = "merged"
    /\ \E level \in {"sanai", "lines"} :
          \E t1, t2 \in DOMAIN cumulative[level] :
              /\ t1 # t2
              /\ PrefixOf(t1) = PrefixOf(t2)
              /\ \E i \in 1..Len(cumulative[level][t1]),
                    j \in 1..Len(cumulative[level][t2]),
                    col \in Columns(scheme) :
                    /\ cumulative[level][t1][i].Pattern =
                           cumulative[level][t2][j].Pattern
                    /\ cumulative[level][t1][i].vals[col] > 0
                    /\ cumulative[level][t2][j].vals[col] > 0

\* All rows of the tables of a dict, as one sequence.
AllRows(tables) ==
    LET seq == SetToSeq(DOMAIN tables)
    IN  Flatten([i \in 1..Len(seq) |-> tables[seq[i]]])

\* The sum of count / row_total for the column col over the given rows,
\* all of nonzero total.
RECURSIVE ShareSum(_, _, _)
ShareSum(rows, cols, col) ==
    IF rows = <<>> THEN Frac(0, 1)
    ELSE FloatAdd(Frac(Head(rows).vals[col], RowSum(Head(rows), cols)),
                  ShareSum(Tail(rows), cols, col))

\* The sum of the values of a dict of floats.
FloatTotal(totals) ==
    LET seq == SetToSeq(DOMAIN totals)
        Partial[i \in 0..Len(seq)] ==
            IF i = 0 THEN Frac(0, 1)
            ELSE FloatAdd(Partial[i - 1], totals[seq[i]])
    IN  Partial[Len(seq)]

IsNormalizedTotal(totals, tables, cols) ==
    LET nonzero == SelectSeq(AllRows(tables),
                             LAMBDA row : RowSum(row, cols) # 0)
    IN  /\ DOMAIN totals = cols
        /\ \A col \in cols :
               /\ totals[col].kind = "finite"
               /\ totals[col] = ShareSum(nonzero, cols, col)
        /\ FloatTotal(totals) = Frac(Len(nonzero), 1)

\* C13: in combine_normalized_position_counts (either scheme) each row
\* with a nonzero total contributes count / row_total to each bucket, a
\* row whose counts are all 0 contributes nothing and makes no returned
\* value NaN; the returned values sum to the number of rows with a
\* nonzero total.
C13_ZeroRowsAreLeftOut ==
    pc = "combined" =>
        \A level \in {"sanai", "lines"} :
            IsNormalizedTotal(total_counts[level], merged[level],
                              Columns(scheme))

\* The merged tables hold an all-zero row next to a row whose counts are
\* spread over two buckets.
C13_Witness ==
    /\ pc = "combined"
    /\ \E level \in {"sanai", "lines"} :
          LET rows == AllRows(merged[level])
          IN  /\ \E k \in 1..Len(rows) : RowSum(rows[k], Columns(scheme)) = 0
              /\ \E k \in 1..Len(rows) :
                     \E c1, c2 \in Columns(scheme) :
                         /\ c1 # c2
                         /\ rows[k].vals[c1] > 0
                         /\ rows[k].vals[c2] > 0

-----------------------------------------------------------------------------
(* Corpus loader, extract_score_data.get_score_data.  File names, paths    *)
(* and piece-ids are Python strs, kept as sequences of characters.         *)

MaxFiles == 2       \* most file names of an enumerated scores folder
MaxRecords == 2     \* most records of an enumerated annotation set

XmlExt == <<".", "x", "m", "l">>

\* str.split(sep)[0]: the text before the first occurrence of sep, the
\* whole str when sep does not occur.
SplitFirst(str, sep) ==
    LET at == {k \in 1..(Len(str) - Len(sep) + 1) :
                  SubSeq(str, k, k + Len(sep) - 1) = sep}
    IN  IF at = {} THEN str
        ELSE SubSeq(str, 1, (CHOOSE k \in at : \A j \in at : k <= j) - 1)

\* os.path.join(folder_path, file_name)
PathJoin(folder_path, file_name) == folder_path \o <<"/">> \o file_name

\* The object converter.parse(file_path) returns when it does not raise.
Parsed(file_path) == [parsed |-> file_path]

\* The position of the first annotation record of the given mbid, 0 when
\* the loop over the annotations ends without a match.
FirstMatch(annotations_, mbid) ==
    LET at == {k \in 1..Len(annotations_) : annotations_[k].mbid = mbid}
    IN  IF at = {} THEN 0 ELSE CHOOSE k \in at : \A j \in at : k <= j

\* scores[mbid] = entry on a dict kept as the sequence of its entries.
DictSet(entries, entry) ==
    IF \E k \in 1..Len(entries) : entries[k].mbid = entry.mbid
        THEN [k \in 1..Len(entries) |->
                 IF entries[k].mbid = entry.mbid THEN entry ELSE entries[k]]
        ELSE Append(entries, entry)

\* Lines 25-36, for one file name: the first record of the file's mbid
\* triggers the parse; an exception of the parse is caught and printed with
\* the file path.  unparsable holds the file names converter.parse fails on.
FileStep(acc, file_name, folder_path, annotations_, unparsable) ==
    LET mbid == SplitFirst(file_name, XmlExt)
        file_path == PathJoin(folder_path, file_name)
        m == FirstMatch(annotations_, mbid)
    IN  IF m = 0 THEN acc
        ELSE IF file_name \in unparsable
            THEN [acc EXCEPT !.log = Append(@, file_path)]
        ELSE [acc EXCEPT !.scores =
                 DictSet(@, Entry(mbid, Parsed(file_path),
                                  annotations_[m].sections))]

\* get_score_data: the returned dict and the printed file paths.
RECURSIVE get_score_data(_, _, _, _)
get_score_data(scores_folder_, folder_path, annotations_, unparsable) ==
    IF scores_folder_ = <<>> THEN [scores |-> <<>>, log |-> <<>>]
    ELSE FileStep(get_score_data(SubSeq(scores_folder_, 1,
                                        Len(scores_folder_) - 1),
                                 folder_path, annotations_, unparsable),
                  scores_folder_[Len(scores_folder_)], folder_path,
                  annotations_, unparsable)

-----------------------------------------------------------------------------
(* Specification of the loader: a scores folder, the files on which the    *)
(* parser fails and an annotation set are drawn; get_score_data is applied *)
(* to them.                                                                *)

FileNames ==
    {<<"a">> \o XmlExt, <<"b">> \o XmlExt, <<"b", ".", "t", "x", "t">>}

FolderPath == <<"d">>

AnnotationRecords ==
    {[mbid |-> mbid, sections |-> tree] :
        mbid \in {<<"a">>, <<"b">>},
        tree \in {ShapeTree(1, 0, 1, 0, 1, 0), ShapeTree(1, 1, 0, 0, 0, 0)}}

InitLoad ==
    /\ scores_folder \in SeqsUpTo(FileNames, MaxFiles)
    /\ annotation_records \in SeqsUpTo(AnnotationRecords, MaxRecords)
    /\ unparsable_files \in SUBSET FileNames
    /\ ran = {}
    /\ loaded_scores = None
    /\ log = <<>>
    /\ pc = "start"
    /\ scores_data = <<>>
    /\ patterns = <<>>
    /\ scheme = None
    /\ all_centos_counts = None
    /\ score_section_counts = None
    /\ IdleAgg
    /\ score = <<>>
    /\ pattern = <<>>
    /\ quartile = None
    /\ decile = None
    /\ start_offset = 0
    /\ end_offset = 0
    /\ extracted_part = None

GetScoreData ==
    /\ pc = "start"
    /\ LET result == get_score_data(scores_folder, FolderPath,
                                    annotation_records, unparsable_files)
       IN  /\ loaded_scores' = result.scores
           /\ log' = result.log
    /\ pc' = "loaded"
    /\ UNCHANGED <<scores_folder, annotation_records, unparsable_files, ran,
                   scores_data,
                   patterns, scheme, all_centos_counts, score_section_counts,
                   score, countVars, sliceVars, aggVars>>

NextLoad == GetScoreData

SpecLoad == InitLoad /\ [][NextLoad]_vars

\* The mbid get_score_data derives from a file name.
MbidOf(file_name) == SplitFirst(file_name, XmlExt)

Matches(file_name) ==
    \E k \in 1..Len(annotation_records) :
        annotation_records[k].mbid = MbidOf(file_name)

FilesOfFolder == {scores_folder[k] : k \in 1..Len(scores_folder)}

LoadedKeys == {loaded_scores[k].mbid : k \in 1..Len(loaded_scores)}

Logged(file_name) ==
    \E k \in 1..Len(log) : log[k] = PathJoin(FolderPath, file_name)

\* A piece-id is a key of the corpus iff a file of that id parses and an
\* annotation record has that mbid.
KeysAreMatchedParsedFiles ==
    \A mbid \in {MbidOf(f) : f \in FileNames} :
        mbid \in LoadedKeys <=>
            \E f \in FilesOfFolder :
                MbidOf(f) = mbid /\ Matches(f) /\ f \notin unparsable_files

\* C14: after get_score_data a piece-id is a key of the returned corpus
\* iff some annotation record has that mbid and the parse succeeds; a file
\* whose parse fails or that matches no annotation record is left out and
\* its failure is logged with the file path, without keeping any later
\* file from being loaded.
C14_FailuresAreLoggedAndSkipped ==
    pc = "loaded" =>
        /\ KeysAreMatchedParsedFiles
        /\ \A f \in FilesOfFolder :
               (f \in unparsable_files \/ ~Matches(f)) => Logged(f)

-----------------------------------------------------------------------------
(* Properties of the corpus pipeline across pieces.                        *)

\* The node and every node below it carry the slice of the timeline over
\* their own span.
RECURSIVE NodeCarriesSlice(_, _, _)
NodeCarriesSlice(level, node, sc) ==
    /\ Has(node, "score")
    /\ node["score"] = SliceOf(sc, node["start"], node["end"])
    /\ Has(node, ChildKey(level)) =>
          \A k \in 1..Len(node[ChildKey(level)]) :
              NodeCarriesSlice(level + 1, node[ChildKey(level)][k], sc)

\* C15: when the tree of one piece has a node without 'start' or 'end',
\* add_streams_to_score_data gives up that piece only: every other piece,
\* before or after it in the corpus, ends with every declared node
\* carrying its slice.
C15_MalformedPieceAbortsOnlyItself ==
    pc = "ExtractKeyError" =>
        \A p \in 1..Len(scores_data) :
            ~TreeRaises(scores_data[p].annotations) =>
                \A n \in 1..Len(scores_data[p].annotations) :
                    NodeCarriesSlice(1, scores_data[p].annotations[n],
                                     scores_data[p].score)

\* The corpus with its pieces in every order.
Reorderings(data) ==
    {[k \in 1..Len(data) |-> data[order[k]]] :
        order \in Orderings(1..Len(data))}

\* The results of one run per piece, each on that piece alone, put
\* together by piece-id.
MergedByPieceId(data, pats, sch) ==
    [mbid \in {data[p].mbid : p \in 1..Len(data)} |->
        LET p == CHOOSE q \in 1..Len(data) : data[q].mbid = mbid
        IN  count_all_patterns_wrapper(<<data[p]>>, pats, sch)[mbid]]

CountsOfPieceAlone(data, p) ==
    calculate_score_section_counts(<<data[p]>>)[data[p].mbid]

\* C17: calculate_score_section_counts keeps no state across pieces: the
\* labels and the counts recorded for a piece (the sanai_<n> keys,
\* sanai_count, sana_count, line_count, section_count) depend on that
\* piece's tree only, whatever pieces come before it in the corpus.
C17_SectionCountsArePerPiece ==
    pc = "section_counts" =>
        \A p \in 1..Len(scores_data) :
            score_section_counts[scores_data[p].mbid]
                = CountsOfPieceAlone(scores_data, p)

\* The positions <<p, n, m>> of the sanai without a 'lines' key: sana m of
\* section n of the piece at position p.
LeafSanai(data) ==
    {<<p, n, m>> \in (1..Len(data)) \X (1..MaxSections) \X (1..MaxSanai) :
        /\ n <= Len(data[p].annotations)
        /\ Has(data[p].annotations[n], "sanai")
        /\ m <= Len(data[p].annotations[n]["sanai"])
        /\ ~Has(data[p].annotations[n]["sanai"][m], "lines")}

\* C20: every tree extract_sections accepts is accepted by
\* count_all_patterns_wrapper: for a sana without a 'lines' key the wrapper
\* returns without an error, records the counts of the sana and adds no
\* line entry for it.
C20_WrapperAcceptsSanaWithoutLines ==
    pc \in {"counted", "KeyError"} =>
        /\ pc = "counted"
        /\ \A leaf \in LeafSanai(scores_data) :
               LET entry == all_centos_counts[scores_data[leaf[1]].mbid]
                   which_sana == WhichSana(leaf[2], leaf[3])
               IN  /\ Has(entry.sanai, which_sana)
                   /\ \A k \in 1..MaxLines :
                          ~Has(entry.lines, WhichLine(which_sana, k))

\* sub occurs in str.
Contains(str, sub) ==
    \E k \in 1..(Len(str) - Len(sub) + 1) :
        SubSeq(str, k, k + Len(sub) - 1) = sub

\* The mode labels of the top-level sections of the piece at position p.
LabelsOfPiece(data, p) ==
    {data[p].annotations[n]["mizan"] : n \in 1..Len(data[p].annotations)}

\* The total length of the strs of a set.
TotalLen(strs) ==
    LET seq == SetToSeq(strs) IN SumSeq([i \in 1..Len(seq) |-> Len(seq[i])])

\* title is a title of the given source and level for a piece of the given
\* labels: the source name, the level, the tab name, then every label
\* other than 'none' and nothing else.
IsTitleOf(title, i, levelOf, labels) ==
    LET head == CENTOS_LIST_NAMES[i] \o levelOf \o TabAlMaya
    IN  /\ Len(title) = Len(head) + TotalLen(labels \ {NoneLabel})
        /\ SubSeq(title, 1, Len(head)) = head
        /\ \A label \in labels \ {NoneLabel} :
               Contains(SubSeq(title, Len(head) + 1, Len(title)), label)

SumOverPieces(i, level, key, col) ==
    LET mbids == SetToSeq(DOMAIN centos_counts[i])
    IN  SumSeq([k \in 1..Len(mbids) |->
                   SumOverLabels(scheme, centos_counts[i][mbids[k]][level],
                                 key, col)])

\* C19: no piece's counts are lost in the aggregation: for every source,
\* pattern and bucket, the tables get_centos_counts_per_tab_mizan_score
\* returns (and so the group table of count_distribution_over_dataset) sum
\* to the pattern's counts over all pieces, also when two pieces have the
\* same set of mizan labels and so the same title.
C19_NoPieceIsLostInAggregation ==
    /\ pc \in {"titled", "merged"} =>
           \A i \in 1..Len(centos_counts), level \in {"sanai", "lines"},
              key \in {KeyOrder[k] : k \in 1..Len(KeyOrder)},
              col \in Columns(scheme) :
               SumOverTables(cumulative[level],
                             GroupOf(cumulative[level],
                                     Strip(CENTOS_LIST_NAMES[i])),
                             key, col)
                   = SumOverPieces(i, level, key, col)
    /\ pc = "merged" =>
           \A i \in 1..Len(centos_counts), level \in {"sanai", "lines"},
              key \in {KeyOrder[k] : k \in 1..Len(KeyOrder)},
              col \in Columns(scheme) :
               ColumnSum(SelectSeq(merged[level][Strip(CENTOS_LIST_NAMES[i])],
                                   LAMBDA row : row.Pattern = key), col)
                   = SumOverPieces(i, level, key, col)

-----------------------------------------------------------------------------
(* Ranges of the quartile counter.                                         *)

\* The start indices i the loop of the quartile counter can visit that are
\* counted as Start (i < int(score_length * 0.25)) and as End
\* (i >= score_length - int(score_length * 0.25)).
StartRange(score_length) ==
    {i \in 0..score_length : i < Quarter(score_length)}

EndRange(score_length) ==
    {i \in 0..score_length : i >= score_length - Quarter(score_length)}

\* C21: for every number N >= 0 of pitched events (N < 4 included) and
\* every pattern, the Start and End index ranges of the quartile counter
\* are disjoint (floor(0.25 * N) <= N - floor(0.25 * N)), no occurrence is
\* counted in both, and the three returned counts, Middle = total -
\* (Start + End) included, are non-negative.
C21_QuartileRangesDisjoint ==
    "quartile" \in ran =>
        LET N   == ScoreLength(score)
            occ == Occurrences(PitchNames(score), pattern)
        IN  /\ Quarter(N) <= N - Quarter(N)
            /\ StartRange(N) \cap EndRange(N) = {}
            /\ quartile[1] = Cardinality(occ \cap StartRange(N))
            /\ quartile[3] = Cardinality(occ \cap EndRange(N))
            /\ quartile[1] + quartile[3] <= Cardinality(occ)
            /\ quartile[1] >= 0
            /\ quartile[2] >= 0
            /\ quartile[3] >= 0

\* The counter has run on a stream of fewer than 4 pitched events in which
\* a non-empty pattern occurs twice.
C21_Witness ==
    /\ "quartile" \in ran
    /\ ScoreLength(score) \in 1..3
    /\ Len(pattern) > 0
    /\ Cardinality(Occurrences(PitchNames(score), pattern)) >= 2
    /\ quartile[2] >= 2

=============================================================================
